---------------------------- MODULE Spec2Model ----------------------------
(***************************************************************************)
(* Movies Management API (src/movie.js).                                   *)
(*                                                                         *)
(* The file holds two variants of the same Express program (lines 1-309    *)
(* and 311-597).  One of them is running: `variant` is chosen by Init.     *)
(* Every route handler performs at most one persistence operation, after   *)
(* the synchronous validation of the request, so a request is one atomic   *)
(* step of the model and concurrent requests are an interleaving of them.  *)
(*                                                                         *)
(* Encoding of the values the program handles:                             *)
(*   - a JSON object is a record; an absent property is an absent field;   *)
(*   - a title is a sequence of characters (<<>> is the empty string);     *)
(*   - a releaseYear sent by a client is [num |-> n] when its text is an   *)
(*     integer numeral and [str |-> s] when it is any other text;          *)
(*   - an ObjectId is a number of Ids; the path parameter 0 stands for a   *)
(*     string that is no ObjectId;                                         *)
(*   - a response status of 0 means that no response was written.          *)
(***************************************************************************)
EXTENDS Integers, Sequences, FiniteSets, TLC

VARIABLES
    variant,    \* 1: lines 1-309, 2: lines 311-597
    startYear,  \* new Date().getFullYear() when the routes were registered
    nowYear,    \* the calendar year of the wall clock
    movies,     \* the documents of the Movie collection
    issued,     \* the ObjectIds that have been stored so far
    req,        \* the last request handled
    res         \* the response to it

vars == <<variant, startYear, nowYear, movies, issued, req, res>>

----------------------------------------------------------------------------
(* Bounds *)

MaxId == 2

MaxTicks == 1

BaseYear == 2025

(* Program constants *)

MinYear == 1888

Genres == {"Action", "Comedy", "Drama", "Horror", "Sci-Fi", "Romance", "Other"}

SchemaPaths == {"title", "director", "releaseYear", "genre", "image"}

----------------------------------------------------------------------------
(* Values *)

Ids == 1..MaxId

PathIds == 0..MaxId

IsObjectId(id) == id \in Ids

Has(o, f) == f \in DOMAIN o

StoredIds(coll) == {doc._id : doc \in coll}

\* findById: the stored document under id
ById(coll, id) == CHOOSE doc \in coll : doc._id = id

\* o with property f set to v (the other properties kept)
With(o, f, v) == [g \in DOMAIN o \cup {f} |-> IF g = f THEN v ELSE o[g]]

\* o without property f
Without(o, f) == [g \in DOMAIN o \ {f} |-> o[g]]

----------------------------------------------------------------------------
(* express-validator: the chains of the write routes.  A standard validator *)
(* sees the property's text, "" when the property is absent; every validator *)
(* of a chain runs (no bail), and every failure adds one error, in order.    *)

WellFormedURLs == {"http://img.example/dune.png", "http://img.example/arrival.png"}

isURL(s) == s \in WellFormedURLs

TitleText(body) == IF Has(body, "title") THEN body.title ELSE <<>>

DirectorText(body) == IF Has(body, "director") THEN body.director ELSE ""

YearText(body) == IF Has(body, "releaseYear") THEN body.releaseYear ELSE [str |-> ""]

GenreText(body) == IF Has(body, "genre") THEN body.genre ELSE ""

YearNotEmpty(y) == Has(y, "num") \/ y.str # ""

isInt(y, min, max) == Has(y, "num") /\ min <= y.num /\ y.num <= max

Failure(ok, path, msg) == IF ok THEN <<>> ELSE <<[path |-> path, msg |-> msg]>>

TitleChain(v, body) ==
    Failure(Len(TitleText(body)) # 0, "title", "Title is required")
    \o (IF v = 1
        THEN Failure(Len(TitleText(body)) >= 1, "title", "Title must be at least 1 character")
        ELSE <<>>)

\* a chain that only asks for the property to be there
DirectorChainPresentOnly(v, body) ==
    Failure(Has(body, "director"), "director", "Director is required")

DirectorChain(v, body) ==
    Failure(DirectorText(body) # "", "director", "Director is required")

ReleaseYearChain(v, body, maxYear) ==
    (IF v = 1
     THEN Failure(YearNotEmpty(YearText(body)), "releaseYear", "Release year is required")
     ELSE <<>>)
    \o Failure(isInt(YearText(body), MinYear, maxYear), "releaseYear", "Release year must be valid")

\* a chain without its isIn
GenreChainNotEmptyOnly(v, body) ==
    Failure(GenreText(body) # "", "genre", "Genre is required")

GenreChain(v, body) ==
    (IF v = 1
     THEN Failure(GenreText(body) # "", "genre", "Genre is required")
     ELSE <<>>)
    \o Failure(GenreText(body) \in Genres, "genre", "Invalid genre")

ImageChain(v, body) ==
    IF Has(body, "image")
    THEN Failure(isURL(body.image), "image", "Image must be a valid URL")
    ELSE <<>>

\* validationResult(req).array(); maxYear is the bound the chain was built with
validationResult(v, body, maxYear) ==
    TitleChain(v, body) \o DirectorChain(v, body) \o ReleaseYearChain(v, body, maxYear)
    \o GenreChain(v, body) \o ImageChain(v, body)

----------------------------------------------------------------------------
(* Mongoose *)

\* new Movie(req.body): the schema paths of the body, cast to the schema types,
\* under the _id of the body or else a generated one
NewMovie(body, id) ==
    [f \in (DOMAIN body \cap SchemaPaths) \cup {"_id"} |->
        IF f = "_id" THEN id
        ELSE IF f = "releaseYear" THEN body.releaseYear.num
        ELSE body[f]]

\* the update document of findByIdAndUpdate(id, body): a $set of the schema
\* paths the body holds
ApplyUpdate(doc, body) ==
    [f \in DOMAIN doc \cup (DOMAIN body \cap SchemaPaths) |->
        IF f \in DOMAIN body \cap SchemaPaths
        THEN (IF f = "releaseYear" THEN body.releaseYear.num ELSE body[f])
        ELSE doc[f]]

\* MongoDB refuses an update that would change _id
ChangesId(id, body) == Has(body, "_id") /\ body._id # id

Replace(coll, old, doc) == (coll \ {old}) \cup {doc}

----------------------------------------------------------------------------
(* GET /api/movies: the filter built from the query string *)

\* String.prototype.toLowerCase on the characters of the model
Lower(c) == CASE c = "A" -> "a" [] c = "B" -> "b" [] OTHER -> c

\* new RegExp(title, 'i') throws a SyntaxError on an unterminated group
ValidRegExp(p) == \A i \in DOMAIN p : p[i] # "("

\* the same without the flag i
CharMatchesExact(pc, tc) == pc = "." \/ pc = tc

\* one pattern character against one character of the text, flag i
CharMatches(pc, tc) == pc = "." \/ Lower(pc) = Lower(tc)

\* RegExp.prototype.test: the pattern matches somewhere in the text
RegExpTest(p, t) ==
    \E off \in 0..(Len(t) - Len(p)) :
        \A i \in 1..Len(p) : CharMatches(p[i], t[off + i])

\* parseInt of a query value: its number, or NaN
parseInt(y) == IF Has(y, "num") THEN [num |-> y.num] ELSE [nan |-> TRUE]

\* JavaScript truthiness of a query value
TruthyTitle(q) == Has(q, "title") /\ Len(q.title) > 0

TruthyYear(q) == Has(q, "releaseYear") /\ YearNotEmpty(q.releaseYear)

TruthyGenre(q) == Has(q, "genre") /\ q.genre # ""

\* building the filter throws (the RegExp), or Movie.find rejects (NaN cannot
\* be cast to the Number path releaseYear)
FilterThrows(q) ==
    \/ TruthyTitle(q) /\ ~ValidRegExp(q.title)
    \/ TruthyYear(q) /\ Has(parseInt(q.releaseYear), "nan")

\* whether a stored document satisfies the filter of query q
MatchesFilter(doc, q) ==
    /\ TruthyTitle(q) => RegExpTest(q.title, doc.title)
    /\ TruthyYear(q) => doc.releaseYear = parseInt(q.releaseYear).num
    /\ TruthyGenre(q) => doc.genre = q.genre

\* Movie.find(filter)
Find(coll, q) == {doc \in coll : MatchesFilter(doc, q)}

----------------------------------------------------------------------------
(* Mongoose: the two queries by _id.  Without upsert, findByIdAndUpdate    *)
(* changes nothing when no document has the id.                            *)

findByIdAndUpdate(coll, id, body) ==
    IF id \in StoredIds(coll)
    THEN Replace(coll, ById(coll, id), ApplyUpdate(ById(coll, id), body))
    ELSE coll

\* a query that finds the document and leaves it there
findByIdOnly(coll, id) == coll

findByIdAndDelete(coll, id) == {doc \in coll : doc._id # id}

----------------------------------------------------------------------------
(* The state after construction: the routes are registered (which reads    *)
(* the clock once), the collection is empty, no request was handled.       *)

Init ==
    /\ variant \in {1, 2}
    /\ nowYear = BaseYear
    /\ startYear = nowYear
    /\ movies = {}
    /\ issued = {}
    /\ req = [op |-> "NONE", at |-> BaseYear]
    /\ res = [status |-> 0]

\* the error-handling middleware of the second variant
ServerError == [status |-> 500, error |-> "Server Error"]

\* an error thrown by the async handler of the first variant's POST route,
\* which has no try: Express 5 forwards the rejection to its default error
\* handler (500), Express 4 leaves the request without a response
Unhandled == {[status |-> 500], [status |-> 0]}

\* the response of GET /api/movies to a query, over the collection coll
ListResponse(coll, query) ==
    IF FilterThrows(query)
    THEN ServerError
    ELSE [status |-> 200, list |-> Find(coll, query)]

\* POST /api/movies
Create(body) ==
    /\ req' = [op |-> "POST", at |-> nowYear, body |-> body]
    /\ LET errors == validationResult(variant, body, startYear) IN
       IF errors # <<>>
       THEN /\ res' = [status |-> 400, errors |-> errors]
            /\ UNCHANGED <<movies, issued>>
       ELSE \E id \in Ids :
              /\ IF Has(body, "_id") THEN id = body._id ELSE id \notin issued
              /\ IF id \in StoredIds(movies)
                 THEN \* movie.save() rejects: duplicate key
                      /\ IF variant = 1
                         THEN res' \in Unhandled
                         ELSE res' = ServerError
                      /\ UNCHANGED <<movies, issued>>
                 ELSE /\ movies' = movies \cup {NewMovie(body, id)}
                      /\ issued' = issued \cup {id}
                      /\ res' = [status |-> 201, body |-> NewMovie(body, id)]
    /\ UNCHANGED <<variant, startYear, nowYear>>

\* PUT /api/movies/:id
Update(id, body) ==
    /\ req' = [op |-> "PUT", at |-> nowYear, id |-> id, body |-> body]
    /\ LET errors == validationResult(variant, body, startYear) IN
       IF errors # <<>>
       THEN /\ res' = [status |-> 400, errors |-> errors]
            /\ UNCHANGED movies
       ELSE IF ~IsObjectId(id) \/ (id \in StoredIds(movies) /\ ChangesId(id, body))
       THEN \* findByIdAndUpdate rejects: CastError, or immutable field _id
            /\ res' = IF variant = 1
                      THEN [status |-> 500, error |-> "Server error"]
                      ELSE ServerError
            /\ UNCHANGED movies
       ELSE /\ movies' = findByIdAndUpdate(movies, id, body)
            /\ res' = IF id \in StoredIds(movies')
                      THEN [status |-> 200, body |-> ById(movies', id)]
                      ELSE [status |-> 404, error |-> "Movie not found"]
    /\ UNCHANGED <<variant, startYear, nowYear, issued>>

\* DELETE /api/movies/:id
Delete(id) ==
    /\ req' = [op |-> "DELETE", at |-> nowYear, id |-> id]
    /\ IF ~IsObjectId(id)
       THEN \* findByIdAndDelete rejects: CastError
            /\ res' = IF variant = 1
                      THEN [status |-> 400, error |-> "Invalid ID"]
                      ELSE ServerError
            /\ UNCHANGED movies
       ELSE /\ movies' = findByIdAndDelete(movies, id)
            /\ res' = IF id \in StoredIds(movies)
                      THEN [status |-> 200, message |-> "Movie deleted"]
                      ELSE [status |-> 404, error |-> "Movie not found"]
    /\ UNCHANGED <<variant, startYear, nowYear, issued>>

\* GET /api/movies
List(query) ==
    /\ req' = [op |-> "GET", at |-> nowYear, query |-> query]
    /\ res' = ListResponse(movies, query)
    /\ UNCHANGED <<variant, startYear, nowYear, movies, issued>>

\* the calendar year changes while the server is up
Tick ==
    /\ nowYear < BaseYear + MaxTicks
    /\ nowYear' = nowYear + 1
    /\ UNCHANGED <<variant, startYear, movies, issued, req, res>>

----------------------------------------------------------------------------
(* The requests the clients send.  The three specifications below run the  *)
(* same program under three sets of requests: Spec varies the stored       *)
(* documents and the ids, SpecValidate the payloads that break a rule,     *)
(* SpecList the titles and the queries.                                    *)

Years == BaseYear..(BaseYear + MaxTicks)

Arrival ==
    [title |-> <<"a">>, director |-> "Villeneuve",
     releaseYear |-> [num |-> MinYear], genre |-> "Sci-Fi"]

Poster == "http://img.example/dune.png"

\* Arrival with one property removed or replaced by a value that breaks its rule
Defects ==
    {Without(Arrival, f) : f \in DOMAIN Arrival}
    \cup {With(Arrival, "title", <<>>), With(Arrival, "director", ""),
          With(Arrival, "releaseYear", [str |-> "abc"]),
          With(Arrival, "releaseYear", [num |-> MinYear - 1]),
          With(Arrival, "genre", "sci-fi"), With(Arrival, "genre", "Western"),
          With(Arrival, "image", "poster"), With(Arrival, "image", "")}
    \cup {[image |-> "poster"],
          [title |-> <<>>, releaseYear |-> [num |-> MinYear - 1], genre |-> "Sci-Fi"]}

\* Arrival in each year the clock of the model reaches, and in the next one
InYears == {With(Arrival, "releaseYear", [num |-> y]) : y \in Years \cup {BaseYear + MaxTicks + 1}}

\* Arrival under an _id chosen by the client
WithId == {With(Arrival, "_id", id) : id \in Ids}

ValidateBodies == {Arrival} \cup InYears \cup Defects

ValidateQueries == {[genre |-> "Sci-Fi"]}

WriteBodies ==
    {Arrival, With(Arrival, "image", Poster),
     With(Arrival, "releaseYear", [num |-> BaseYear]),
     With(With(Arrival, "releaseYear", [num |-> BaseYear]), "image", Poster),
     With(Arrival, "releaseYear", [num |-> BaseYear + 1]),
     Without(Arrival, "title"), Without(Arrival, "director"),
     With(Arrival, "genre", "sci-fi"),
     With(Arrival, "releaseYear", [num |-> MinYear - 1])}
    \cup WithId

WriteQueries == {[genre |-> "Sci-Fi"], [releaseYear |-> [num |-> MinYear]]}

Dune(title, year, genre) ==
    [title |-> title, director |-> "Villeneuve",
     releaseYear |-> [num |-> year], genre |-> genre]

ListBodies ==
    {Dune(<<"a">>, MinYear, "Sci-Fi"), Dune(<<"a">>, BaseYear, "Sci-Fi"),
     Dune(<<"A", "b">>, MinYear, "Drama"), Dune(<<".">>, MinYear, "Drama"),
     Dune(<<"(">>, BaseYear, "Sci-Fi"), Without(Arrival, "genre")}

ListQueries ==
    LET titles == {[title |-> t] : t \in {<<>>, <<"a">>, <<"b">>, <<".">>, <<"(">>}}
        years  == {[releaseYear |-> y] : y \in {[num |-> MinYear], [str |-> "abc"]}}
        genres == {[genre |-> g] : g \in {"Sci-Fi"}}
        Merge(a, b) == [f \in DOMAIN a \cup DOMAIN b |-> IF f \in DOMAIN a THEN a[f] ELSE b[f]]
        Empty == [f \in {} |-> 0]
    IN  {Merge(t, Merge(y, g)) :
            t \in titles \cup {Empty}, y \in years \cup {Empty}, g \in genres \cup {Empty}}

Next ==
    \/ \E body \in WriteBodies : Create(body)
    \/ \E id \in PathIds, body \in WriteBodies : Update(id, body)
    \/ \E id \in PathIds : Delete(id)
    \/ \E query \in WriteQueries : List(query)
    \/ Tick

Spec == Init /\ [][Next]_vars

NextValidate ==
    \/ \E body \in ValidateBodies : Create(body)
    \/ \E id \in PathIds, body \in ValidateBodies : Update(id, body)
    \/ \E id \in PathIds : Delete(id)
    \/ \E query \in ValidateQueries : List(query)
    \/ Tick

SpecValidate == Init /\ [][NextValidate]_vars

NextList ==
    \/ \E body \in ListBodies : Create(body)
    \/ \E id \in PathIds, body \in ListBodies : Update(id, body)
    \/ \E id \in PathIds : Delete(id)
    \/ \E query \in ListQueries : List(query)
    \/ Tick

SpecList == Init /\ [][NextList]_vars

----------------------------------------------------------------------------
(* The rules of the specification, stated apart from the program *)

\* the properties of a write payload that break their rule in calendar year `year`
ViolatedFields(body, year) ==
    {f \in {"title"} : ~Has(body, "title") \/ Len(body.title) = 0}
    \cup {f \in {"director"} : ~Has(body, "director") \/ body.director = ""}
    \cup {f \in {"releaseYear"} :
            \/ ~Has(body, "releaseYear")
            \/ ~Has(body.releaseYear, "num")
            \/ body.releaseYear.num < MinYear
            \/ body.releaseYear.num > year}
    \cup {f \in {"genre"} : ~Has(body, "genre") \/ body.genre \notin Genres}
    \cup {f \in {"image"} : Has(body, "image") /\ body.image \notin WellFormedURLs}

\* the properties the errors of a 400 response name
NamedFields(errors) == {errors[i].path : i \in DOMAIN errors}

SameLetter(a, b) == a = b \/ {a, b} = {"a", "A"} \/ {a, b} = {"b", "B"}

\* part is a substring of text, letter case ignored
Contains(text, part) ==
    \E off \in 0..(Len(text) - Len(part)) :
        \A i \in 1..Len(part) : SameLetter(part[i], text[off + i])

\* a title without a character that RegExp reads as syntax
IsLiteral(t) == \A i \in DOMAIN t : t[i] \notin {".", "("}

\* the filters of the specification: substring, exact year, exact genre
SatisfiesQuery(doc, q) ==
    /\ Has(q, "title") => Contains(doc.title, q.title)
    /\ Has(q, "releaseYear") => doc.releaseYear = q.releaseYear.num
    /\ Has(q, "genre") => doc.genre = q.genre

\* the step handles a request of one of the methods ops
Handles(ops) == req'.op \in ops /\ nowYear' = nowYear

----------------------------------------------------------------------------
(* C1: a create or update whose payload breaks a rule (in the year of the  *)
(* request) is answered 400, the response names every property that breaks *)
(* its rule, and the collection is left as it was, whatever the id.        *)
C1_InvalidWriteRejected ==
    [][(Handles({"POST", "PUT"}) /\ ViolatedFields(req'.body, req'.at) # {})
        => /\ res'.status = 400
           /\ ViolatedFields(req'.body, req'.at) \subseteq NamedFields(res'.errors)
           /\ movies' = movies]_vars

C1_Witness ==
    /\ req.op = "PUT"
    /\ Cardinality(ViolatedFields(req.body, req.at)) >= 3
    /\ req.id \notin StoredIds(movies)
    /\ res.status = 400
    /\ movies # {}

(* C2: a create or update whose other properties are in order is rejected  *)
(* exactly when its releaseYear is no integer of 1888..the year in which   *)
(* the request is handled.                                                 *)
C2_YearAtRequestTime ==
    (req.op \in {"POST", "PUT"} /\ ViolatedFields(req.body, req.at) \subseteq {"releaseYear"})
        => (res.status = 400 <=> "releaseYear" \in ViolatedFields(req.body, req.at))

(* C3: a create whose payload passes the validation and whose insert fails *)
(* (the _id of the payload is stored already) is answered 500.             *)
C3_InsertFailureIs500 ==
    [][(/\ Handles({"POST"})
        /\ validationResult(variant, req'.body, startYear) = <<>>
        /\ Has(req'.body, "_id")
        /\ req'.body._id \in StoredIds(movies))
        => res'.status = 500]_vars

(* C4: the delete of a stored id is answered 200 and removes that record   *)
(* and no other; the delete of an id that was deleted and not created      *)
(* again since is answered 404 and leaves the collection as it was.        *)
C4_DeleteTwice ==
    [][Handles({"DELETE"})
        => /\ req'.id \in StoredIds(movies)
                => /\ res'.status = 200
                   /\ movies' = {d \in movies : d._id # req'.id}
                   /\ Cardinality(movies') = Cardinality(movies) - 1
           /\ req'.id \in issued \ StoredIds(movies)
                => /\ res'.status = 404
                   /\ movies' = movies]_vars

C4_Witness ==
    /\ req.op = "DELETE"
    /\ res.status = 404
    /\ req.id \in issued
    /\ movies # {}

(* C5, as the specification states it: right after a create that stored a  *)
(* record, the list filtered by that record's title answers exactly that   *)
(* record.  Stated for the titles without RegExp syntax, which already     *)
(* refute it.                                                              *)
C5_RoundTripExactlyOne ==
    (req.op = "POST" /\ res.status = 201 /\ IsLiteral(req.body.title))
        => LET r == ListResponse(movies, [title |-> req.body.title]) IN
           /\ r.status = 200
           /\ r.list = {res.body}
           /\ res.body = NewMovie(req.body, res.body._id)

(* C5, amended: right after a create that stored a record (the payload     *)
(* under its id), the list filtered by that record's title answers every   *)
(* stored record whose title contains it, letter case ignored: the created *)
(* record once, and each other record of such a title.  A title with       *)
(* RegExp syntax is matched as a pattern: the created record is listed     *)
(* when the pattern is well formed, and the answer is 500 when it is not.  *)
C5_RoundTripContains ==
    (req.op = "POST" /\ res.status = 201)
        => LET t == req.body.title
               r == ListResponse(movies, [title |-> t]) IN
           /\ res.body = NewMovie(req.body, res.body._id)
           /\ res.body \in movies
           /\ IsLiteral(t)
                => /\ r.status = 200
                   /\ r.list = {d \in movies : Contains(d.title, t)}
                   /\ Cardinality({d \in r.list : d._id = res.body._id}) = 1
           /\ (\E i \in DOMAIN t : t[i] = "(") => r.status = 500
           /\ (~IsLiteral(t) /\ \A i \in DOMAIN t : t[i] # "(")
                => /\ r.status = 200
                   /\ res.body \in r.list
                   /\ r.list \subseteq movies

C5_Witness ==
    /\ req.op = "POST"
    /\ res.status = 201
    /\ IsLiteral(req.body.title)
    /\ Cardinality(ListResponse(movies, [title |-> req.body.title]).list) >= 2

(* C6: after an update answered 200, the stored record under the id is the *)
(* payload on every mutable property (no image when the payload has none), *)
(* and it is the response.                                                 *)
C6_UpdateReplaces ==
    (req.op = "PUT" /\ res.status = 200)
        => /\ NewMovie(req.body, req.id) \in movies
           /\ res.body = NewMovie(req.body, req.id)

(* C7: an update whose payload breaks no rule (in the year of the request) *)
(* and whose id is well formed and not stored is answered 404 and leaves   *)
(* the collection as it was.                                               *)
C7_UnknownIdNotFound ==
    [][(/\ Handles({"PUT"})
        /\ ViolatedFields(req'.body, req'.at) = {}
        /\ IsObjectId(req'.id)
        /\ req'.id \notin StoredIds(movies))
        => (res'.status = 404 /\ movies' = movies)]_vars

\* what is left of C7 once the year bound is the one the route applies: the
\* year in which the routes were registered
C7_NotFoundOnceAccepted ==
    [][(/\ Handles({"PUT"})
        /\ ViolatedFields(req'.body, startYear) = {}
        /\ IsObjectId(req'.id)
        /\ req'.id \notin StoredIds(movies))
        => (res'.status = 404 /\ movies' = movies)]_vars

(* C8: the list answers 200 with exactly the stored records that satisfy   *)
(* every filter of the query (title as a substring, letter case ignored;   *)
(* year and genre exactly).  Stated for the queries whose releaseYear is   *)
(* absent or a number; the others are C9's.                                *)
C8_ListIsTheFilter ==
    (req.op = "GET" /\ (Has(req.query, "releaseYear") => Has(req.query.releaseYear, "num")))
        => /\ res.status = 200
           /\ res.list = {d \in movies : SatisfiesQuery(d, req.query)}

(* C9: a list whose releaseYear is not numeric answers 200 with the        *)
(* records that match its other filters.                                   *)
C9_NonNumericYearIgnored ==
    (/\ req.op = "GET"
     /\ Has(req.query, "releaseYear")
     /\ ~Has(req.query.releaseYear, "num")
     /\ (Has(req.query, "title") => IsLiteral(req.query.title)))
        => /\ res.status = 200
           /\ res.list = {d \in movies : SatisfiesQuery(d, Without(req.query, "releaseYear"))}

(* C10: after every step, each stored record has a non-empty title and     *)
(* director, an integer releaseYear of 1888..the current year and a genre  *)
(* of the enumeration, and no two records share an id; a step adds ids     *)
(* only by a create, removes them only by a delete, and an update changes  *)
(* no record but the one under its id, which keeps that id.                *)
RecordIsValid(d) ==
    /\ {"_id", "title", "director", "releaseYear", "genre"} \subseteq DOMAIN d
    /\ Len(d.title) > 0
    /\ d.director # ""
    /\ d.releaseYear \in MinYear..nowYear
    /\ d.genre \in Genres

C10_RecordsStayValid ==
    [][/\ \A d \in movies' : RecordIsValid(d)'
       /\ Cardinality(StoredIds(movies')) = Cardinality(movies')
       /\ req'.op # "POST" => StoredIds(movies') \subseteq StoredIds(movies)
       /\ req'.op # "DELETE" => StoredIds(movies) \subseteq StoredIds(movies')
       /\ req'.op = "PUT" => \A d \in movies : d._id # req'.id => d \in movies'
      ]_vars

C10_Witness ==
    /\ Cardinality(movies) = 2
    /\ req.op = "PUT"
    /\ res.status = 200
    /\ issued = Ids
    /\ \E d \in movies : d.releaseYear = startYear /\ Has(d, "image")

=============================================================================
